---------------------------- MODULE Spec2Model ----------------------------
(***************************************************************************)
(* Model of llama_mcp_adapter/adapter.py: McpToolSpecAdapter, the JSON     *)
(* schema to pydantic model resolver (TypeResolutionMixin,                 *)
(* TypeCreationMixin, FieldExtractionMixin, create_model_from_json_schema, *)
(* _create_model) and the patching of the library global done by           *)
(* to_tool_list_async.                                                     *)
(*                                                                         *)
(* Python values are modelled as follows.                                  *)
(*   - a JSON object (schema fragment) is a TLA+ record; the key "$ref" is *)
(*     the field ref and "$defs" the field defs; `k in d` is Has(d, k).    *)
(*   - an insertion-ordered dict whose order matters (properties, $defs)   *)
(*     is a sequence of <<key, value>> pairs with distinct keys.           *)
(*   - a pydantic model class is an object: its identity is its index in   *)
(*     the sequence `models`, the type that refers to it is ModelT(id).    *)
(*   - a call of a method takes the adapter's mutable state s and returns  *)
(*     [s, val, err]: the state after the call, the value returned and the *)
(*     exception raised (NoErr when it returned).                          *)
(***************************************************************************)
EXTENDS Integers, Sequences, FiniteSets, TLC

VARIABLES
    properties_cache,   \* self.properties_cache: model name -> model id
    models,             \* every class made by pydantic.create_model, by id
    built,              \* history: for each model id, the fragment it was built
                        \* from and the types its properties resolved to
    last,               \* history: the last create_model_from_json_schema call
    ncalls,             \* history: number of calls made on the adapter
    global_fn,          \* llama_mcp_base.create_model_from_json_schema
    pc,                 \* per to_tool_list_async call: where it stands
    parent_ptr,         \* per to_tool_list_async call: its local parent_ptr
    used_fn             \* history: the function the library built the tools with

resolverVars == <<properties_cache, models, built, last, ncalls>>
patchVars == <<global_fn, pc, parent_ptr, used_fn>>
vars == <<properties_cache, models, built, last, ncalls, global_fn, pc, parent_ptr, used_fn>>

---------------------------------------------------------------------------
(* Bounds of the model *)

\* Calls of create_model_from_json_schema made on one adapter.
MaxCalls == 2

\* Python's recursion limit (sys.getrecursionlimit()), scaled down: deeper
\* than any acyclic schema of the model needs, so that only a $ref cycle
\* reaches it.
RecursionLimit == 20

\* Concurrent to_tool_list_async calls.
NTasks == 3

---------------------------------------------------------------------------
(* Python values *)

NoErr == "none"
KeyError == "KeyError"
RecursionError == "RecursionError"
IndexError == "IndexError"

Return(s, v) == [s |-> s, val |-> v, err |-> NoErr]
Raise(s, e) == [s |-> s, val |-> <<>>, err |-> e]

None == [py |-> "None"]
Ellipsis == [py |-> "Ellipsis"]
Str(v) == [py |-> "str", v |-> v]

Has(d, k) == k \in DOMAIN d
Get(d, k, dflt) == IF k \in DOMAIN d THEN d[k] ELSE dflt

Range(seq) == {seq[i] : i \in 1..Len(seq)}
Keys(od) == {od[i][1] : i \in 1..Len(od)}
Lookup(od, k) == od[CHOOSE i \in 1..Len(od) : od[i][1] = k][2]
SetItem(d, k, v) == [x \in DOMAIN d \cup {k} |-> IF x = k THEN v ELSE d[x]]

---------------------------------------------------------------------------
(* Resolved types: typing objects and classes *)

Prim(n) == [k |-> "prim", name |-> n]
NoneType == [k |-> "NoneType"]
LiteralT(values) == [k |-> "Literal", values |-> values]
ListT(item_type) == [k |-> "List", item |-> item_type]
DictT(value_type) == [k |-> "Dict", value |-> value_type]
ModelT(id) == [k |-> "Model", id |-> id]

RECURSIVE Flatten(_)
Flatten(types) ==
    IF types = <<>> THEN <<>>
    ELSE (IF Head(types).k = "Union" THEN Head(types).args ELSE <<Head(types)>>)
         \o Flatten(Tail(types))

RECURSIVE Dedupe(_)
Dedupe(types) ==
    IF types = <<>> THEN <<>>
    ELSE LET init == Dedupe(SubSeq(types, 1, Len(types) - 1))
             t == types[Len(types)]
         IN IF t \in Range(init) THEN init ELSE Append(init, t)

\* typing.Union[...] and X | Y: nested unions are flattened, repeated
\* arguments dropped, and a union of one argument is that argument.
Union(types) ==
    LET args == Dedupe(Flatten(types))
    IN IF Len(args) = 1 THEN args[1] ELSE [k |-> "Union", args |-> args]

Optional(t) == Union(<<t, NoneType>>)

\* llama_mcp_base.json_type_mapping overridden with "array": List and
\* "object": Dict.
\* The library's table without the adapter's "array" and "object" entries.
json_type_mapping ==
    [t \in {"string", "number", "integer", "boolean", "array", "object"} |->
        CASE t = "string" -> Prim("str")
          [] t = "number" -> Prim("float")
          [] t = "integer" -> Prim("int")
          [] t = "boolean" -> Prim("bool")
          [] t = "array" -> Prim("list")
          [] t = "object" -> Prim("dict")]

json_type_mappings ==
    [t \in {"string", "number", "integer", "boolean", "array", "object"} |->
        CASE t = "string" -> Prim("str")
          [] t = "number" -> Prim("float")
          [] t = "integer" -> Prim("int")
          [] t = "boolean" -> Prim("bool")
          [] t = "array" -> Prim("List")
          [] t = "object" -> Prim("Dict")]

---------------------------------------------------------------------------
(* TypeCreationMixin: the helpers that do not recurse *)

_is_simple_array(schema) ==
    Has(schema, "type") /\ schema.type = "array" /\ Has(schema, "items")

_is_simple_object(schema) ==
    Has(schema, "type") /\ schema.type = "object"
        /\ Has(schema, "additionalProperties")

\* A $ref path is the sequence of its pieces, the separator "#/$defs/" being
\* a piece: ref_path.split("#/$defs/")[-1] is what follows the last one.
DefsPrefix == "#/$defs/"

_extract_ref_name(ref_path) ==
    LET seps == {i \in 1..Len(ref_path) : ref_path[i] = DefsPrefix}
        from == IF seps = {} THEN 1
                ELSE (CHOOSE i \in seps : \A j \in seps : j <= i) + 1
    IN IF from > Len(ref_path) THEN "" ELSE ref_path[from]

---------------------------------------------------------------------------
(* FieldExtractionMixin: the helpers that do not recurse *)

\* _get_properties without its enum case.
_get_properties_no_enum(schema) == Get(schema, "properties", <<>>)

_get_properties(schema) ==
    IF Has(schema, "enum")
    THEN << <<Get(schema, "title", "enum_field"), schema>> >>
    ELSE Get(schema, "properties", <<>>)

\* _set_field_default making the type optional whatever the default is.
_set_field_default_always_optional(field, required_fields, ftype, field_schema) ==
    IF field \in required_fields
    THEN [default_value |-> Ellipsis, final_type |-> ftype]
    ELSE [default_value |-> Get(field_schema, "default", None),
          final_type |-> Optional(ftype)]

_set_field_default(field, required_fields, ftype, field_schema) ==
    IF field \in required_fields
    THEN [default_value |-> Ellipsis, final_type |-> ftype]
    ELSE LET default_value == Get(field_schema, "default", None)
         IN [default_value |-> default_value,
             final_type |-> IF default_value = None THEN Optional(ftype) ELSE ftype]

---------------------------------------------------------------------------
(* The resolver: every method takes the adapter state s = [cache, heap,    *)
(* built] and the depth d of the Python call stack.  A call made at a      *)
(* depth beyond RecursionLimit raises RecursionError.  An exception raised *)
(* by a callee propagates (the code has no except clause), keeping the     *)
(* state as it was when it was raised.                                     *)

RECURSIVE _resolve_field_type(_, _, _, _)
RECURSIVE _resolve_reference(_, _, _, _)
RECURSIVE _resolve_union_type(_, _, _, _)
RECURSIVE _resolve_union_option(_, _, _, _)
RECURSIVE _resolve_basic_type(_, _, _, _)
RECURSIVE _create_list_type(_, _, _, _)
RECURSIVE _create_dict_type(_, _, _, _)
RECURSIVE _extract_fields(_, _, _, _)
RECURSIVE _create_model(_, _, _, _, _)
RECURSIVE UnionOptions(_, _, _, _, _)
RECURSIVE FieldsLoop(_, _, _, _, _, _)
RECURSIVE DefsLoop(_, _, _, _)

\* The rest of a method after a call it makes: an exception raised by the
\* callee propagates, otherwise the method goes on with what it returned.
Then(r, Continue(_)) == IF r.err # NoErr THEN r ELSE Continue(r)

_resolve_field_type(s, field_schema, defs, d) ==
    IF d > RecursionLimit THEN Raise(s, RecursionError)
    ELSE IF Has(field_schema, "ref")
    THEN _resolve_reference(s, field_schema, defs, d + 1)
    ELSE IF Has(field_schema, "enum")
    THEN Return(s, LiteralT(field_schema.enum))
    ELSE IF Has(field_schema, "anyOf")
    THEN _resolve_union_type(s, field_schema, defs, d + 1)
    ELSE _resolve_basic_type(s, field_schema, defs, d + 1)

\* self.properties_cache.get(ref_name) or self._create_model(...): a class is
\* truthy, so a cached model is returned and nothing else is evaluated.
CachedOrCreate(s, ref_schema, ref_name, defs, d) ==
    IF ref_name \in DOMAIN s.cache
    THEN Return(s, ModelT(s.cache[ref_name]))
    ELSE Then(_create_model(s, ref_schema, ref_name, defs, d + 1),
              LAMBDA r : Return(r.s, ModelT(r.val)))

_resolve_reference(s, field_schema, defs, d) ==
    IF d > RecursionLimit THEN Raise(s, RecursionError)
    ELSE LET ref_name == _extract_ref_name(field_schema.ref)
    IN IF ref_name \notin Keys(defs)
       THEN \* defs[ref_name] raises KeyError unless the cache answered first
            IF ref_name \in DOMAIN s.cache
            THEN Return(s, ModelT(s.cache[ref_name]))
            ELSE Raise(s, KeyError)
       ELSE LET ref_schema == Lookup(defs, ref_name)
            IN IF Has(ref_schema, "anyOf")
               THEN _resolve_union_type(s, ref_schema, defs, d + 1)
               ELSE IF _is_simple_array(ref_schema)
               THEN _create_list_type(s, ref_schema, defs, d + 1)
               ELSE IF _is_simple_object(ref_schema)
               THEN _create_dict_type(s, ref_schema, defs, d + 1)
               ELSE CachedOrCreate(s, ref_schema, ref_name, defs, d)

\* [self._resolve_union_option(option, defs) for option in schema["anyOf"]]
UnionOptions(s, options, i, defs, d) ==
    IF i > Len(options) THEN Return(s, <<>>)
    ELSE Then(_resolve_union_option(s, options[i], defs, d + 1),
              LAMBDA r : Then(UnionOptions(r.s, options, i + 1, defs, d),
                              LAMBDA rest : Return(rest.s, <<r.val>> \o rest.val)))

\* Union[tuple(union_types)] if len(union_types) > 1 else union_types[0]
UnionOf(s, union_types) ==
    IF Len(union_types) > 1 THEN Return(s, Union(union_types))
    ELSE IF Len(union_types) = 0 THEN Raise(s, IndexError)
    ELSE Return(s, union_types[1])

_resolve_union_type(s, schema, defs, d) ==
    IF d > RecursionLimit THEN Raise(s, RecursionError)
    ELSE Then(UnionOptions(s, schema.anyOf, 1, defs, d),
              LAMBDA r : UnionOf(r.s, r.val))

_resolve_union_option(s, option, defs, d) ==
    IF d > RecursionLimit THEN Raise(s, RecursionError)
    ELSE IF Has(option, "ref")
    THEN _resolve_reference(s, option, defs, d + 1)
    ELSE IF Has(option, "type") /\ option.type = "null"
    THEN Return(s, NoneType)
    ELSE _resolve_basic_type(s, option, defs, d + 1)

_resolve_basic_type(s, schema, defs, d) ==
    IF d > RecursionLimit THEN Raise(s, RecursionError)
    ELSE LET json_type == Get(schema, "type", "string")
         IN IF _is_simple_array(schema)
            THEN _create_list_type(s, schema, defs, d + 1)
            ELSE IF _is_simple_object(schema)
            THEN _create_dict_type(s, schema, defs, d + 1)
            ELSE Return(s, Get(json_type_mappings, json_type, Prim("str")))

_create_list_type(s, schema, defs, d) ==
    IF d > RecursionLimit THEN Raise(s, RecursionError)
    ELSE Then(_resolve_field_type(s, schema.items, defs, d + 1),
              LAMBDA r : Return(r.s, ListT(r.val)))

_create_dict_type(s, schema, defs, d) ==
    IF d > RecursionLimit THEN Raise(s, RecursionError)
    ELSE Then(_resolve_field_type(s, schema.additionalProperties, defs, d + 1),
              LAMBDA r : Return(r.s, DictT(r.val)))

\* One item of `fields`: (final_type, Field(default_value, description=...)),
\* with the type _resolve_field_type returned kept beside it (ftype) for the
\* history variable `built`.
FieldEntry(field_name, required_fields, field_type, field_schema) ==
    LET dt == _set_field_default(field_name, required_fields, field_type,
                                 field_schema)
    IN [name |-> field_name,
        type |-> dt.final_type,
        default |-> dt.default_value,
        description |-> Get(field_schema, "description", ""),
        ftype |-> field_type]

\* for field_name, field_schema in properties.items(): ...
FieldsLoop(s, properties, i, required_fields, defs, d) ==
    IF i > Len(properties) THEN Return(s, <<>>)
    ELSE Then(_resolve_field_type(s, properties[i][2], defs, d + 1),
              LAMBDA r :
                Then(FieldsLoop(r.s, properties, i + 1, required_fields, defs, d),
                     LAMBDA rest :
                       Return(rest.s,
                              <<FieldEntry(properties[i][1], required_fields,
                                           r.val, properties[i][2])>>
                              \o rest.val)))

_extract_fields(s, schema, defs, d) ==
    IF d > RecursionLimit THEN Raise(s, RecursionError)
    ELSE LET properties == _get_properties(schema)
             required_fields ==
                 IF Has(schema, "enum")
                 THEN {Get(schema, "title", "enum_field")}
                 ELSE Range(Get(schema, "required", <<>>))
         IN FieldsLoop(s, properties, 1, required_fields, defs, d)

\* pydantic.create_model(model_name, **fields): a new class.
NewModel(model_name, fields) ==
    [name |-> model_name,
     fields |-> [i \in 1..Len(fields) |->
                    [name |-> fields[i].name, type |-> fields[i].type,
                     default |-> fields[i].default,
                     description |-> fields[i].description]]]

\* model = create_model(...); self.properties_cache[model_name] = model
StoreModel(s, schema, model_name, defs, fields) ==
    Return([cache |-> SetItem(s.cache, model_name, Len(s.heap) + 1),
            heap |-> Append(s.heap, NewModel(model_name, fields)),
            built |-> Append(s.built,
                [schema |-> schema,
                 ftypes |-> [i \in 1..Len(fields) |-> fields[i].ftype]])],
           Len(s.heap) + 1)

\* _create_model without its look into the cache.
_create_model_rebuild(s, schema, model_name, defs, d) ==
    IF d > RecursionLimit THEN Raise(s, RecursionError)
    ELSE Then(_extract_fields(s, schema, defs, d + 1),
              LAMBDA f : StoreModel(f.s, schema, model_name, defs, f.val))

_create_model(s, schema, model_name, defs, d) ==
    IF d > RecursionLimit THEN Raise(s, RecursionError)
    ELSE IF model_name \in DOMAIN s.cache
    THEN Return(s, s.cache[model_name])
    ELSE Then(_extract_fields(s, schema, defs, d + 1),
              LAMBDA f : StoreModel(f.s, schema, model_name, defs, f.val))

\* for cls_name, cls_schema in defs.items():
\*     self.properties_cache[cls_name] = self._create_model(...)
DefsLoop(s, defs, i, d) ==
    IF i > Len(defs) THEN Return(s, 0)
    ELSE Then(_create_model(s, defs[i][2], defs[i][1], defs, d + 1),
              LAMBDA r :
                DefsLoop([r.s EXCEPT !.cache = SetItem(@, defs[i][1], r.val)],
                         defs, i + 1, d))

create_model_from_json_schema(s, schema, model_name) ==
    Then(DefsLoop(s, Get(schema, "defs", <<>>), 1, 1),
         LAMBDA r : _create_model(r.s, schema, model_name, <<>>, 2))

---------------------------------------------------------------------------
(* The schemas the calls are made with.  Each is a definitions table       *)
(* ($defs, in its order) joined with a root fragment.                      *)

Ref(name) == [ref |-> <<DefsPrefix, name>>]

Integer == [type |-> "integer"]

NodePlain ==
    [type |-> "object",
     properties |-> << <<"value", Integer>>,
                       <<"label", [type |-> "string", default |-> Str("n/a"),
                                   description |-> "a label"]>> >>,
     required |-> <<"value">>]

NodeSelf ==
    [type |-> "object",
     properties |-> << <<"value", Integer>>, <<"next", Ref("Node")>> >>,
     required |-> <<"value">>]

NodeColor ==
    [type |-> "object",
     properties |-> << <<"color", Ref("Color")>>, <<"tags", Ref("Items")>> >>,
     required |-> <<"color">>]

ColorEnum ==
    [title |-> "Colour", enum |-> <<"red", "green">>,
     properties |-> << <<"shade", Integer>> >>, required |-> <<"shade">>]

ColorUntitled == [type |-> "string", enum |-> <<"red", "green">>]

ColorBack ==
    [type |-> "object", properties |-> << <<"owner", Ref("Node")>> >>]

ColorEnumRef ==
    [title |-> "Color", enum |-> <<"blue">>, ref |-> <<DefsPrefix, "Items">>]

ItemsArr == [type |-> "array", items |-> Integer]

ItemsMap == [type |-> "object", additionalProperties |-> [type |-> "number"]]

ItemsAny == [anyOf |-> <<[type |-> "string"], [type |-> "null"]>>]

DefsTables ==
    { <<>>,
      << <<"Node", NodePlain>> >>,
      << <<"Node", NodeSelf>> >>,
      << <<"Node", NodeColor>>, <<"Color", ColorEnum>>, <<"Items", ItemsArr>> >>,
      << <<"Color", ColorUntitled>>, <<"Items", ItemsMap>>, <<"Node", NodeColor>> >>,
      << <<"Node", NodeColor>>, <<"Color", ColorBack>>, <<"Items", ItemsArr>> >>,
      << <<"Items", ItemsAny>>, <<"Color", ColorEnumRef>> >> }

RootFields ==
    [type |-> "object",
     properties |-> << <<"a", Integer>>,
                       <<"b", [type |-> "string", default |-> Str("x")]>>,
                       <<"c", [type |-> "boolean", description |-> "a flag"]>>,
                       <<"d", [type |-> "integer", default |-> None]>>,
                       <<"e", [type |-> "string", default |-> Str("y")]>>,
                       <<"o", [type |-> "object",
                               properties |-> << <<"x", Integer>> >>,
                               required |-> <<"x">>]>>,
                       <<"l", [type |-> "array", items |-> [type |-> "string"]]>>,
                       <<"m", [type |-> "object", additionalProperties |-> Integer]>>,
                       <<"u", [anyOf |-> <<[type |-> "string"], [type |-> "null"]>>]>>,
                       <<"k", [enum |-> <<"on", "off">>]>>,
                       <<"f", [description |-> "untyped"]>> >>,
     required |-> <<"a", "e", "l">>]

RootRefs ==
    [type |-> "object",
     properties |-> << <<"n", Ref("Node")>>, <<"it", Ref("Items")>>,
                       <<"same", [ref |-> <<"Node">>]>> >>,
     required |-> <<"n">>]

RootUnknown ==
    [type |-> "object", properties |-> << <<"g", Ref("Ghost")>> >>]

RootEnum ==
    [title |-> "Mode", enum |-> <<"fast", "slow">>,
     properties |-> << <<"o", [type |-> "object",
                               properties |-> << <<"z", Ref("Ghost")>> >>]>> >>,
     required |-> <<>>]

RootRef == [ref |-> <<DefsPrefix, "Node">>]

RootFragments == {RootFields, RootRefs, RootUnknown, RootEnum, RootRef}

Schemas ==
    {IF table = <<>> THEN root ELSE [defs |-> table] @@ root :
        table \in DefsTables, root \in RootFragments}

\* model_name: its default "DynamicModel", and a name $defs also uses.
ModelNames == {"DynamicModel", "Node"}

---------------------------------------------------------------------------
(* The adapter as a state machine *)

Original == "llama_mcp_base.create_model_from_json_schema"
Unset == "unset"
Tasks == 1..NTasks
AdapterOf(t) == IF t % 2 = 1 THEN "adapter1" ELSE "adapter2"
\* Odd calls are made on adapter1, even ones on adapter2.
\* Method: self.create_model_from_json_schema, the bound method of an adapter
Method(adapter) == adapter

\* __init__: an empty cache; the library global is the library's function.
Init ==
    /\ properties_cache = <<>>
    /\ models = <<>>
    /\ built = <<>>
    /\ last = [schema |-> RootRef, model_name |-> "", err |-> NoErr, val |-> 0,
               before |-> 0]
    /\ ncalls = 0
    /\ global_fn = Original
    /\ pc = [t \in Tasks |-> "idle"]
    /\ parent_ptr = [t \in Tasks |-> Unset]
    /\ used_fn = [t \in Tasks |-> Unset]

\* One call adapter.create_model_from_json_schema(schema, model_name).
Call(schema, model_name) ==
    /\ ncalls < MaxCalls
    /\ LET r == create_model_from_json_schema(
                    [cache |-> properties_cache, heap |-> models, built |-> built],
                    schema, model_name)
       IN /\ properties_cache' = r.s.cache
          /\ models' = r.s.heap
          /\ built' = r.s.built
          /\ last' = [schema |-> schema, model_name |-> model_name,
                      err |-> r.err,
                      val |-> IF r.err = NoErr THEN r.val ELSE 0,
                      before |-> Len(models)]
    /\ ncalls' = ncalls + 1
    /\ UNCHANGED patchVars

\* to_tool_list_async up to the point where super().to_tool_list_async()
\* suspends (it awaits the tool list from the server).
Enter(t) ==
    /\ pc[t] = "idle"
    /\ parent_ptr' = [parent_ptr EXCEPT ![t] = global_fn]
    /\ global_fn' = Method(AdapterOf(t))
    /\ pc' = [pc EXCEPT ![t] = "awaiting"]
    /\ UNCHANGED <<used_fn, resolverVars>>

\* super().to_tool_list_async() resumes, builds the tools with the function
\* the library global holds at that moment, and returns; finally restores.
ResumeReturn(t) ==
    /\ pc[t] = "awaiting"
    /\ used_fn' = [used_fn EXCEPT ![t] = global_fn]
    /\ global_fn' = parent_ptr[t]
    /\ pc' = [pc EXCEPT ![t] = "done"]
    /\ UNCHANGED <<parent_ptr, resolverVars>>

\* super().to_tool_list_async() raises while awaiting; finally restores.
ResumeRaise(t) ==
    /\ pc[t] = "awaiting"
    /\ global_fn' = parent_ptr[t]
    /\ pc' = [pc EXCEPT ![t] = "done"]
    /\ UNCHANGED <<parent_ptr, used_fn, resolverVars>>

Next == \E schema \in Schemas, model_name \in ModelNames : Call(schema, model_name)

Spec == Init /\ [][Next]_vars

PatchNext ==
    \E t \in Tasks : Enter(t) \/ ResumeReturn(t) \/ ResumeRaise(t)

PatchSpec == Init /\ [][PatchNext]_vars

---------------------------------------------------------------------------
(* Vocabulary of the properties *)

Called == ncalls > 0
FreshCall == ncalls = 1
Returned == Called /\ last.err = NoErr
LastDefs == Get(last.schema, "defs", <<>>)
LastTable(table) == LastDefs = table
\* The models the last call built.
NewModels == (last.before + 1)..Len(models)
EmptyAdapter == [cache |-> <<>>, heap |-> <<>>, built |-> <<>>]

\* The models a resolved type refers to.
RECURSIVE TypeRefs(_)
TypeRefs(t) ==
    CASE t.k = "Model" -> {t.id}
      [] t.k = "List" -> TypeRefs(t.item)
      [] t.k = "Dict" -> TypeRefs(t.value)
      [] t.k = "Union" -> UNION {TypeRefs(t.args[i]) : i \in 1..Len(t.args)}
      [] OTHER -> {}

\* A model and a type written out, the models they refer to in place of
\* their identities: what "structurally identical" compares.
RECURSIVE Struct(_, _)
RECURSIVE StructType(_, _)
Struct(heap, id) ==
    [name |-> heap[id].name,
     fields |-> [i \in 1..Len(heap[id].fields) |->
                    [heap[id].fields[i] EXCEPT !.type = StructType(heap, @)]]]

StructType(heap, t) ==
    CASE t.k = "Model" -> [k |-> "Record", def |-> Struct(heap, t.id)]
      [] t.k = "List" -> ListT(StructType(heap, t.item))
      [] t.k = "Dict" -> DictT(StructType(heap, t.value))
      [] t.k = "Union" ->
            [k |-> "Union", args |-> [i \in 1..Len(t.args) |-> StructType(heap, t.args[i])]]
      [] OTHER -> t

\* Every name a $ref of the fragment names, wherever it stands.
RECURSIVE AllRefs(_)
RECURSIVE PairsRefs(_)
RECURSIVE SeqRefs(_)
PairsRefs(od) == UNION {AllRefs(od[i][2]) : i \in 1..Len(od)}
SeqRefs(frags) == UNION {AllRefs(frags[i]) : i \in 1..Len(frags)}
AllRefs(frag) ==
    (IF Has(frag, "ref") THEN {frag.ref[Len(frag.ref)]} ELSE {})
    \cup (IF Has(frag, "properties") THEN PairsRefs(frag.properties) ELSE {})
    \cup (IF Has(frag, "defs") THEN PairsRefs(frag.defs) ELSE {})
    \cup (IF Has(frag, "items") THEN AllRefs(frag.items) ELSE {})
    \cup (IF Has(frag, "additionalProperties")
          THEN AllRefs(frag.additionalProperties) ELSE {})
    \cup (IF Has(frag, "anyOf") THEN SeqRefs(frag.anyOf) ELSE {})

\* The $defs entries reachable from an entry by following $refs, and whether a
\* chain of $refs leads from an entry back to itself.
RECURSIVE Reach(_, _, _)
Reach(table, names, n) ==
    IF n = 0 THEN names
    ELSE Reach(table,
               names \cup UNION {AllRefs(Lookup(table, x)) \cap Keys(table) : x \in names},
               n - 1)

HasRefCycle(schema) ==
    LET table == Get(schema, "defs", <<>>)
    IN \E x \in Keys(table) :
          x \in Reach(table, AllRefs(Lookup(table, x)) \cap Keys(table), Len(table))

\* A fragment that is nothing but an array with items or a mapping.
IsPureArray(frag) ==
    /\ ~Has(frag, "ref") /\ ~Has(frag, "enum") /\ ~Has(frag, "anyOf")
    /\ Has(frag, "type") /\ frag.type = "array" /\ Has(frag, "items")

IsPureMapping(frag) ==
    /\ ~Has(frag, "ref") /\ ~Has(frag, "enum") /\ ~Has(frag, "anyOf")
    /\ Has(frag, "type") /\ frag.type = "object" /\ Has(frag, "additionalProperties")

\* What a field fragment denotes once a $ref to an entry of the last call's
\* $defs is followed.
Denoted(frag) ==
    IF Has(frag, "ref") /\ frag.ref[Len(frag.ref)] \in Keys(LastDefs)
    THEN Lookup(LastDefs, frag.ref[Len(frag.ref)])
    ELSE frag

\* The declared properties of the fragment a model was built from.
DeclaredProperties(id) == Get(built[id].schema, "properties", <<>>)
DeclaredRequired(id) == Range(Get(built[id].schema, "required", <<>>))
FromEnum(id) == Has(built[id].schema, "enum")

---------------------------------------------------------------------------
(* The properties *)

SelfRefTable == << <<"Node", NodeSelf>> >>
ForwardTable ==
    << <<"Node", NodeColor>>, <<"Color", ColorEnum>>, <<"Items", ItemsArr>> >>

\* C1 (as claimed, for the first call made on an adapter): a call with a
\* schema whose $defs holds Node, with a field next that is a $ref back to
\* Node, terminates normally, and the type of next refers to the very model
\* the cache holds under Node.
C1_SelfReferenceResolves ==
    (FreshCall /\ LastTable(SelfRefTable)) =>
        /\ last.err = NoErr
        /\ "Node" \in DOMAIN properties_cache
        /\ LET node == models[properties_cache["Node"]]
           IN \E i \in 1..Len(node.fields) :
                 /\ node.fields[i].name = "next"
                 /\ properties_cache["Node"] \in TypeRefs(node.fields[i].type)

\* C2: cache identity.  Every model ever made is the cache's entry for its
\* name (no entry was ever replaced by another object), every model a field
\* refers to is the cached one of its name, a call that returns returns the
\* cached model of its model_name, and no step removes or replaces an entry.
CacheHoldsEveryModel ==
    /\ \A id \in 1..Len(models) :
          /\ models[id].name \in DOMAIN properties_cache
          /\ properties_cache[models[id].name] = id
          /\ \A i \in 1..Len(models[id].fields) :
                \A ref \in TypeRefs(models[id].fields[i].type) :
                    /\ ref \in 1..Len(models)
                    /\ properties_cache[models[ref].name] = ref
    /\ Returned => /\ last.model_name \in DOMAIN properties_cache
                   /\ last.val = properties_cache[last.model_name]

CacheEntriesKept ==
    \A name \in DOMAIN properties_cache :
        /\ name \in DOMAIN properties_cache'
        /\ properties_cache'[name] = properties_cache[name]

C2_CacheIdentity == [](CacheHoldsEveryModel) /\ [][CacheEntriesKept]_vars

\* C2 witness: Color was built on demand, through the forward reference of
\* Node, before the $defs loop came to it.
C2_Witness ==
    /\ FreshCall /\ Returned /\ LastTable(ForwardTable)
    /\ properties_cache["Color"] < properties_cache["Node"]

\* C3 (as claimed): in a model built from an object fragment, a required
\* property keeps its resolved type and has no default; any other property
\* has the type Optional(resolved type) and its declared default, or None.
C3_NonRequiredAlwaysOptional ==
    \A id \in 1..Len(models) : ~FromEnum(id) =>
        /\ Len(models[id].fields) = Len(DeclaredProperties(id))
        /\ \A i \in 1..Len(models[id].fields) :
              LET field == models[id].fields[i]
                  declared == DeclaredProperties(id)[i]
                  resolved == built[id].ftypes[i]
              IN /\ field.name = declared[1]
                 /\ IF field.name \in DeclaredRequired(id)
                    THEN field.type = resolved /\ field.default = Ellipsis
                    ELSE /\ field.type = Optional(resolved)
                         /\ field.default = Get(declared[2], "default", None)

\* C3 (amended): as claimed for the required properties; any other property
\* has its declared default, or None, and its type is Optional(resolved type)
\* only when that default is None: with a declared default other than null
\* the resolved type is kept as it is.
C3_RequiredFieldInvariant ==
    \A id \in 1..Len(models) : ~FromEnum(id) =>
        /\ Len(models[id].fields) = Len(DeclaredProperties(id))
        /\ \A i \in 1..Len(models[id].fields) :
              LET field == models[id].fields[i]
                  declared == DeclaredProperties(id)[i]
                  resolved == built[id].ftypes[i]
              IN /\ field.name = declared[1]
                 /\ IF field.name \in DeclaredRequired(id)
                    THEN field.type = resolved /\ field.default = Ellipsis
                    ELSE /\ field.default = Get(declared[2], "default", None)
                         /\ field.type = IF field.default = None
                                         THEN Optional(resolved) ELSE resolved

\* C3 witness: a model built from a fragment with a required property, a
\* non-required one that declares a default and a non-required one that
\* declares none.
C3_Witness ==
    \E id \in 1..Len(models) :
        /\ ~FromEnum(id)
        /\ \E i, j, k \in 1..Len(DeclaredProperties(id)) :
              LET declared == DeclaredProperties(id)
              IN /\ declared[i][1] \in DeclaredRequired(id)
                 /\ declared[j][1] \notin DeclaredRequired(id)
                 /\ Has(declared[j][2], "default")
                 /\ declared[j][2].default # None
                 /\ declared[k][1] \notin DeclaredRequired(id)
                 /\ ~Has(declared[k][2], "default")

\* A property of the fragment is a $ref to a name absent from the $defs of
\* the last call's schema.
HasUnknownPropertyRef(frag) ==
    \E i \in 1..Len(Get(frag, "properties", <<>>)) :
        LET property == frag.properties[i][2]
        IN /\ Has(property, "ref")
           /\ property.ref[Len(property.ref)] \notin Keys(LastDefs)

\* C4 (as claimed, for a $ref that is a property of the root schema and a
\* root model the call builds): a call whose schema holds a $ref to a name
\* absent from its $defs fails; it does not return a model built from that
\* schema.
C4_UnknownReferenceFails ==
    ~(/\ Returned
      /\ last.val \in NewModels
      /\ built[last.val].schema = last.schema
      /\ ~Has(last.schema, "enum")
      /\ HasUnknownPropertyRef(last.schema))

\* C5 (as claimed): on a fresh adapter, a call with a schema without $ref
\* cycles terminates, and when it returns the cache holds one model per
\* entry of $defs and one for the root, the model returned being the one
\* built from the root schema.
C5_OneModelPerDefinitionPlusRoot ==
    (FreshCall /\ ~HasRefCycle(last.schema)) =>
        /\ last.err # RecursionError
        /\ last.err = NoErr =>
              /\ DOMAIN properties_cache = Keys(LastDefs) \cup {last.model_name}
              /\ Cardinality(DOMAIN properties_cache) = Len(LastDefs) + 1
              /\ Len(models) = Len(LastDefs) + 1
              /\ built[last.val].schema = last.schema
              /\ models[last.val].name = last.model_name

\* C6 (as claimed): in the models a call builds, a property that is a pure
\* container, or a $ref to a $defs entry that is one, resolves to a List or
\* to a Mapping, never to a model.
C6_OpenContainerInline ==
    Called =>
        \A id \in NewModels : ~FromEnum(id) =>
            \A i \in 1..Len(DeclaredProperties(id)) :
                LET denoted == Denoted(DeclaredProperties(id)[i][2])
                    resolved == built[id].ftypes[i]
                IN /\ IsPureArray(denoted) => resolved.k = "List"
                   /\ (IsPureMapping(denoted) /\ ~IsPureArray(denoted))
                         => resolved.k = "Dict"

\* C7 (as claimed, for an enum fragment without a $ref): a model built from
\* a fragment with an enum is named after the fragment's title and has
\* exactly one field, named after the title ("enum_field" if untitled),
\* required, of the literal type of the enum's values.
C7_EnumRecordNamedAfterTitle ==
    \A id \in 1..Len(models) : (FromEnum(id) /\ ~Has(built[id].schema, "ref")) =>
        LET frag == built[id].schema
        IN /\ Has(frag, "title") => models[id].name = frag.title
           /\ Len(models[id].fields) = 1
           /\ models[id].fields[1].name = Get(frag, "title", "enum_field")
           /\ models[id].fields[1].default = Ellipsis
           /\ models[id].fields[1].type = LiteralT(frag.enum)

\* C7 (amended): a model built from a fragment with an enum carries the name
\* it was built under (the $defs key or model_name, which is its key in the
\* cache), not the title; it has exactly one field, named after the title
\* ("enum_field" if untitled), required, and of the literal type of the
\* enum's values unless the fragment also has a $ref, which is resolved
\* first.
C7_EnumPromotion ==
    \A id \in 1..Len(models) : FromEnum(id) =>
        LET frag == built[id].schema
        IN /\ models[id].name \in DOMAIN properties_cache
           /\ properties_cache[models[id].name] = id
           /\ id \in NewModels =>
                 \/ /\ models[id].name \in Keys(LastDefs)
                    /\ frag = Lookup(LastDefs, models[id].name)
                 \/ /\ models[id].name = last.model_name
                    /\ frag = last.schema
           /\ Len(models[id].fields) = 1
           /\ models[id].fields[1].name = Get(frag, "title", "enum_field")
           /\ models[id].fields[1].default = Ellipsis
           /\ ~Has(frag, "ref") => models[id].fields[1].type = LiteralT(frag.enum)

\* C7 witness: a model built from a titled enum fragment that also declares
\* properties and a required list, under a name other than the title.
C7_Witness ==
    \E id \in 1..Len(models) :
        /\ FromEnum(id)
        /\ Has(built[id].schema, "title")
        /\ built[id].schema.title # models[id].name
        /\ Get(built[id].schema, "properties", <<>>) # <<>>
        /\ Has(built[id].schema, "required")

\* An object fragment that is no reference, enum or union and has no value
\* type for unlisted properties.
IsPlainObject(frag) ==
    /\ ~Has(frag, "ref") /\ ~Has(frag, "enum") /\ ~Has(frag, "anyOf")
    /\ Has(frag, "type") /\ frag.type = "object"
    /\ ~Has(frag, "additionalProperties")

\* C8 (as claimed): a property that is a plain object resolves to a model
\* built from its properties.
C8_PlainObjectIsRecord ==
    \A id \in 1..Len(models) : ~FromEnum(id) =>
        \A i \in 1..Len(DeclaredProperties(id)) :
            IsPlainObject(DeclaredProperties(id)[i][2])
                => built[id].ftypes[i].k = "Model"

\* C8 (amended): a property that is a plain object resolves through the
\* type table to the untyped mapping Dict; its properties are not looked at
\* and no model is built from it.
C8_PlainObjectIsDict ==
    \A id \in 1..Len(models) : ~FromEnum(id) =>
        \A i \in 1..Len(DeclaredProperties(id)) :
            IsPlainObject(DeclaredProperties(id)[i][2])
                => /\ built[id].ftypes[i] = Prim("Dict")
                   /\ TypeRefs(models[id].fields[i].type) = {}

\* C8 witness: a model with a property that is an inline object declaring
\* properties of its own.
C8_Witness ==
    \E id \in 1..Len(models) :
        /\ ~FromEnum(id)
        /\ \E i \in 1..Len(DeclaredProperties(id)) :
              /\ IsPlainObject(DeclaredProperties(id)[i][2])
              /\ Get(DeclaredProperties(id)[i][2], "properties", <<>>) # <<>>

\* C9 (as claimed): the model a call returns is, field for field, the model
\* a fresh adapter returns for the same schema and model_name.
C9_CallIndependence ==
    Returned =>
        LET fresh == create_model_from_json_schema(EmptyAdapter, last.schema,
                                                   last.model_name)
        IN /\ fresh.err = NoErr
           /\ Struct(models, last.val) = Struct(fresh.s.heap, fresh.val)

\* C10 (as claimed): once no to_tool_list_async call is in flight the library
\* global is the library's own function, and the tools of every call were
\* built with the method of the adapter the call was made on.
C10_PatchRestored ==
    /\ (\A t \in Tasks : pc[t] # "awaiting") => global_fn = Original
    /\ \A t \in Tasks : used_fn[t] # Unset => used_fn[t] = Method(AdapterOf(t))

=============================================================================
